---- MODULE Spec2Model ----
(***************************************************************************)
(* radicle-surf file_system: labels, paths, and the two formulations of    *)
(* the Directory tree (src/file_system/mod.rs: a recursive non-empty list  *)
(* of DirectoryContents; src/file_system/directory.rs: a Directory over a  *)
(* Forest keyed by Label).                                                 *)
(***************************************************************************)
EXTENDS Integers, Sequences, FiniteSets, TLC

VARIABLES
    paths,      \* Directory::from / from_hash_map: the input HashMap (Path -> files)
    pending,    \* keys of the HashMap the `for` loop has not yet taken
    root,       \* Directory::from: `root`, the mod.rs Directory being built
    directory,  \* from_hash_map: `directory`, the directory.rs Directory being built
    pc,         \* position of the construction: "loop" or "done"
    target,     \* combine: `self` before the call
    other,      \* combine: `other`
    combined,   \* combine: `self` after the call
    cpc,        \* position of the combine harness: "ready" or "combined"
    path,       \* Path operations: the path operated on
    prefix,     \* Path::split_last: first component of the result
    last,       \* Path::split_last: second component of the result
    ppc,        \* position of the path harness: "ready" or "split"
    argument,   \* Path::append: the argument after the call (None: no call yet)
    string,     \* Path::from_string: the argument, a sequence of characters
    parsed,     \* Path::from_string: the path returned
    spc         \* position of the from_string harness: "ready" or "parsed"

vars == <<paths, pending, root, directory, pc, target, other, combined, cpc,
          path, prefix, last, ppc, argument, string, parsed, spc>>

fromVars == <<paths, pending, root, directory, pc>>
combineVars == <<target, other, combined, cpc>>
pathVars == <<path, prefix, last, ppc, argument>>
stringVars == <<string, parsed, spc>>

(***************************************************************************)
(* Bounds of the model.                                                    *)
(***************************************************************************)
\* Directory::from, from_hash_map: the size of the input HashMap, counted
\* as the sum over its entries of (labels of the key + files of the value).
MaxSize == 5
\* combine: the summed size of the two HashMaps target and other are built from.
MaxCombineSize == 5
\* Path operations: the number of labels of a path.
MaxPathLen == 4
\* Path::from_string: the number of characters of the string.
MaxStringLen == 4

(***************************************************************************)
(* Option<T>: None is the empty sequence, Some(x) the singleton.           *)
(***************************************************************************)
None == <<>>
Some(x) == <<x>>
IsSome(o) == o /= <<>>
Unwrap(o) == o[1]

(***************************************************************************)
(* Label and Path (mod.rs).                                                *)
(***************************************************************************)
\* Label::root
LabelRoot == "~"

\* The labels paths and file names are drawn from: the root label and two others.
Labels == {LabelRoot, "a", "b"}

\* Path::root
PathRoot == <<LabelRoot>>

\* Path::is_root
is_root(p) == p = PathRoot

\* Path::from_labels
from_labels(head, labels) == <<head>> \o labels

\* Path::append (the new value of self; the argument is cloned, not changed)
append(p, q) == p \o q

\* Path::append with the argument itself handed to NonEmpty::append, which
\* moves the labels out of it: the argument is left without a label.
append_argument_drained(p, q) == <<>>

\* Path::append, the argument after the call: its labels are cloned, it
\* keeps them
append_argument(p, q) == q

\* Path::push
push(p, l) == Append(p, l)

\* Path::split_first
split_first(p) == <<Head(p), Tail(p)>>

\* NonEmpty::split: (first, middle, last); one element is both first and last.
split(p) ==
    IF Len(p) = 1 THEN <<p[1], <<>>, p[1]>>
    ELSE <<p[1], SubSeq(p, 2, Len(p) - 1), p[Len(p)]>>

\* Path::split_last with the first == last test left out (every label but the last).
split_last_keep_all(p) == <<SubSeq(p, 1, Len(p) - 1), p[Len(p)]>>

\* Path::split_last
split_last(p) ==
    LET s == split(p) IN
    IF s[1] = s[3] /\ s[2] = <<>>
    THEN <<<<>>, s[3]>>
    ELSE <<<<s[1]>> \o s[2], s[3]>>

\* str::trim_start_matches('/')
RECURSIVE trim_start_matches(_)
trim_start_matches(s) ==
    IF s /= <<>> /\ Head(s) = "/" THEN trim_start_matches(Tail(s)) ELSE s

\* str::trim_end_matches('/')
RECURSIVE trim_end_matches(_)
trim_end_matches(s) ==
    IF s /= <<>> /\ s[Len(s)] = "/"
    THEN trim_end_matches(SubSeq(s, 1, Len(s) - 1))
    ELSE s

\* str::trim_matches('/')
trim_matches(s) == trim_end_matches(trim_start_matches(s))

\* str::split('/'): the pieces between the separators; a string without a
\* separator, the empty string too, is one piece.
RECURSIVE str_split(_)
str_split(s) ==
    LET seps == {i \in 1..Len(s) : s[i] = "/"} IN
    IF seps = {} THEN <<s>>
    ELSE LET i == CHOOSE k \in seps : \A m \in seps : k <= m IN
         <<SubSeq(s, 1, i - 1)>> \o str_split(SubSeq(s, i + 1, Len(s)))

\* From<&str> for Label: the label of the characters
RECURSIVE Label_from(_)
Label_from(chars) ==
    IF chars = <<>> THEN "" ELSE Head(chars) \o Label_from(Tail(chars))

\* NonEmpty::from_slice
from_slice(v) == IF v = <<>> THEN None ELSE Some(v)

\* Path::from_string
from_string(s) ==
    IF s = <<>> THEN PathRoot
    ELSE LET pieces == str_split(trim_matches(s))
             labels == [i \in 1..Len(pieces) |-> Label_from(pieces[i])]
             nonempty == from_slice(labels)
         IN IF IsSome(nonempty) THEN Unwrap(nonempty) ELSE PathRoot

(***************************************************************************)
(* Directory, DirectoryContents, File (mod.rs).                            *)
(***************************************************************************)
\* File { filename, contents }
File(filename, contents) == [filename |-> filename, contents |-> contents]

\* DirectoryContents::File
FileEntry(f) == [kind |-> "File", file |-> f]

\* DirectoryContents::sub_directory
SubDirectoryEntry(d) == [kind |-> "SubDirectory", dir |-> d]

\* DirectoryContents::Repo
RepoEntry == [kind |-> "Repo"]

\* Directory { label, entries }
Directory(label, entries) == [label |-> label, entries |-> entries]

\* Directory::mkdir
mkdir(label, dir) == Directory(label, <<SubDirectoryEntry(dir)>>)

\* tests::TestRepo::repo_directory
repo_directory == Directory(".test", <<RepoEntry>>)

\* Directory::empty_root
empty_root == mkdir(LabelRoot, repo_directory)

\* Directory::list_directory tagging a sub-directory as a file (as the
\* comment of SystemType::directory words it).
RECURSIVE ListEntries_all_files(_)
ListEntries_all_files(es) ==
    IF es = <<>> THEN <<>>
    ELSE LET e == Head(es) IN
         (CASE e.kind = "SubDirectory" -> <<<<e.dir.label, "File">>>>
            [] e.kind = "File" -> <<<<e.file.filename, "File">>>>
            [] OTHER -> <<>>) \o ListEntries_all_files(Tail(es))

\* Directory::list_directory: (label, SystemType) pairs, Repo entries left out
RECURSIVE ListEntries(_)
ListEntries(es) ==
    IF es = <<>> THEN <<>>
    ELSE LET e == Head(es) IN
         (CASE e.kind = "SubDirectory" -> <<<<e.dir.label, "Directory">>>>
            [] e.kind = "File" -> <<<<e.file.filename, "File">>>>
            [] OTHER -> <<>>) \o ListEntries(Tail(es))

list_directory(dir) == ListEntries(dir.entries)

\* Directory::add_contents adding the first of the entries only: the rest of
\* the non-empty list is lost.
add_contents_first(dir, entries) == [dir EXCEPT !.entries = Append(@, Head(entries))]

\* Directory::add_contents
add_contents(dir, entries) == [dir EXCEPT !.entries = @ \o entries]

\* Index of the first entry that is a sub-directory labelled `label`, 0 if none.
RECURSIVE SubDirectoryIndexFrom(_, _, _)
SubDirectoryIndexFrom(es, label, i) ==
    IF i > Len(es) THEN 0
    ELSE IF es[i].kind = "SubDirectory" /\ es[i].dir.label = label THEN i
    ELSE SubDirectoryIndexFrom(es, label, i + 1)

\* Directory::sub_directory_mut looking at the first entry only: a
\* sub-directory further on in the list is not found.
sub_directory_mut_first(dir, label) ==
    IF dir.entries[1].kind = "SubDirectory" /\ dir.entries[1].dir.label = label
    THEN 1 ELSE 0

\* Directory::sub_directory_mut: the place of the sub-directory found (0: None)
sub_directory_mut(dir, label) == SubDirectoryIndexFrom(dir.entries, label, 1)

\* Directory::sub_directory
sub_directory(dir, label) ==
    LET i == SubDirectoryIndexFrom(dir.entries, label, 1) IN
    IF i = 0 THEN None ELSE Some(dir.entries[i].dir)

\* Directory::file_in_directory
RECURSIVE FileInEntries(_, _)
FileInEntries(es, label) ==
    IF es = <<>> THEN None
    ELSE IF Head(es).kind = "File" /\ Head(es).file.filename = label
         THEN Some(Head(es).file)
    ELSE FileInEntries(Tail(es), label)

file_in_directory(dir, label) == FileInEntries(dir.entries, label)

\* try_fold of sub_directory over the labels
RECURSIVE DigDown(_, _)
DigDown(dir, labels) ==
    IF labels = <<>> THEN Some(dir)
    ELSE LET sub == sub_directory(dir, Head(labels)) IN
         IF IsSome(sub) THEN DigDown(Unwrap(sub), Tail(labels)) ELSE None

\* Directory::find_directory
find_directory(dir, p) ==
    LET s == split_first(p) IN
    IF s[1] = dir.label THEN DigDown(dir, s[2]) ELSE None

\* Directory::find_file
find_file(dir, p) ==
    LET s == split_last(p)
        found == IF s[1] = <<>> THEN Some(dir) ELSE find_directory(dir, s[1])
    IN IF IsSome(found) THEN file_in_directory(Unwrap(found), s[2]) ELSE None

\* Directory::combine with the None arm taken always: other is pushed even
\* when a sub-directory with its label exists.
combine_push(self, oth) ==
    [self EXCEPT !.entries = Append(@, SubDirectoryEntry(oth))]

\* Directory::combine
RECURSIVE combine(_, _)
RECURSIVE CombineEntries(_, _)

\* The loop of Directory::combine over other's entries with a name check in
\* the File arm: a file whose name the directory already has is not added.
RECURSIVE CombineEntries_checked(_, _)
CombineEntries_checked(subdir, es) ==
    IF es = <<>> THEN subdir
    ELSE LET e == Head(es) IN
         CombineEntries_checked(
            CASE e.kind = "File" ->
                    IF IsSome(file_in_directory(subdir, e.file.filename))
                    THEN subdir
                    ELSE [subdir EXCEPT !.entries = Append(@, FileEntry(e.file))]
              [] e.kind = "Repo" ->
                    [subdir EXCEPT !.entries = Append(@, RepoEntry)]
              [] OTHER -> combine(subdir, e.dir),
            Tail(es))

\* The loop of Directory::combine over other's entries with the File arm
\* putting the file before the entries the directory has: a file of other
\* comes before a file of the same name the directory held.
RECURSIVE CombineEntries_files_first(_, _)
CombineEntries_files_first(subdir, es) ==
    IF es = <<>> THEN subdir
    ELSE LET e == Head(es) IN
         CombineEntries_files_first(
            CASE e.kind = "File" ->
                    [subdir EXCEPT !.entries = <<FileEntry(e.file)>> \o @]
              [] e.kind = "Repo" ->
                    [subdir EXCEPT !.entries = Append(@, RepoEntry)]
              [] OTHER -> combine(subdir, e.dir),
            Tail(es))

\* The loop of Directory::combine over other's entries with the File arm
\* doing nothing: the files other brings to a directory target holds are lost.
RECURSIVE CombineEntries_no_files(_, _)
CombineEntries_no_files(subdir, es) ==
    IF es = <<>> THEN subdir
    ELSE LET e == Head(es) IN
         CombineEntries_no_files(
            CASE e.kind = "File" -> subdir
              [] e.kind = "Repo" ->
                    [subdir EXCEPT !.entries = Append(@, RepoEntry)]
              [] OTHER -> combine(subdir, e.dir),
            Tail(es))

\* Directory::combine, the Some arm: the loop over other's entries
CombineEntries(subdir, es) ==
    IF es = <<>> THEN subdir
    ELSE LET e == Head(es) IN
         CombineEntries(
            CASE e.kind = "File" ->
                    [subdir EXCEPT !.entries = Append(@, FileEntry(e.file))]
              [] e.kind = "Repo" ->
                    [subdir EXCEPT !.entries = Append(@, RepoEntry)]
              [] OTHER -> combine(subdir, e.dir),
            Tail(es))

\* Directory::combine with the None arm adding other's entries to self's own:
\* other is not kept as a sub-directory.
combine_union(self, oth) ==
    LET i == sub_directory_mut(self, oth.label) IN
    IF i /= 0
    THEN [self EXCEPT !.entries[i] =
             SubDirectoryEntry(CombineEntries(@.dir, oth.entries))]
    ELSE [self EXCEPT !.entries = @ \o oth.entries]

combine(self, oth) ==
    LET i == sub_directory_mut(self, oth.label) IN
    IF i /= 0
    THEN [self EXCEPT !.entries[i] =
             SubDirectoryEntry(CombineEntries(@.dir, oth.entries))]
    ELSE [self EXCEPT !.entries = Append(@, SubDirectoryEntry(oth))]

\* files.map(|f| DirectoryContents::File(f.clone()))
file_entries(files) == [i \in 1..Len(files) |-> FileEntry(files[i])]

\* for label in prefix.into_iter().rev() { directory = mkdir(label, directory) }
RECURSIVE MkdirChain(_, _)
MkdirChain(pre, dir) ==
    IF pre = <<>> THEN dir
    ELSE MkdirChain(SubSeq(pre, 1, Len(pre) - 1), mkdir(pre[Len(pre)], dir))

\* Directory::from, the else branch up to the combine: the directory built
\* for one entry of the HashMap
EntryDirectory(dir, files) ==
    LET s == split_last(dir) IN
    MkdirChain(s[1], Directory(s[2], file_entries(files)))

\* Directory::from, one iteration of the loop without the is_root branch: the
\* files of the root path go through combine like those of any other path.
FromEntry_nested(r, dir, files) == combine(r, EntryDirectory(dir, files))

\* Directory::from, one iteration of the loop
FromEntry(r, dir, files) ==
    IF is_root(dir) THEN add_contents(r, file_entries(files))
    ELSE combine(r, EntryDirectory(dir, files))

(***************************************************************************)
(* The tree engine (crate::tree, Forest<Label, File>) as the specification *)
(* describes it: a level is a list of sub-trees with unique keys, kept in  *)
(* ascending key order (the order the documentation tests of directory.rs  *)
(* list the children in); a sub-tree is a Node (key, value) or a Branch    *)
(* (key, forest).                                                          *)
(***************************************************************************)
\* The labels in ascending order (Ord of Label: the strings' byte order).
LabelOrder == <<".test", "a", "b", LabelRoot>>

\* The place of a label in the order.
LabelRank(l) == CHOOSE i \in 1..Len(LabelOrder) : LabelOrder[i] = l

\* SubTree::Node
Node(key, value) == [kind |-> "Node", key |-> key, value |-> value]

\* SubTree::Branch
Branch(key, forest) == [kind |-> "Branch", key |-> key, forest |-> forest]

\* Forest::root: the forest without a tree
Forest_root == <<>>

\* Index of the sub-tree with the key, 0 if none.
RECURSIVE KeyIndexFrom(_, _, _)
KeyIndexFrom(trees, key, i) ==
    IF i > Len(trees) THEN 0
    ELSE IF trees[i].key = key THEN i
    ELSE KeyIndexFrom(trees, key, i + 1)

KeyIndex(trees, key) == KeyIndexFrom(trees, key, 1)

\* The sub-tree put after those the level has: the level keeps the order of
\* the insertions.
InsertSorted_last(trees, t) == Append(trees, t)

\* The sub-tree put at its place in the key order.
RECURSIVE InsertSorted(_, _)
InsertSorted(trees, t) ==
    IF trees = <<>> THEN <<t>>
    ELSE IF LabelRank(t.key) < LabelRank(Head(trees).key) THEN <<t>> \o trees
    ELSE <<Head(trees)>> \o InsertSorted(Tail(trees), t)

\* Forest::insert keeping the entry the final key already has: the first
\* value written at a path stays.
RECURSIVE Forest_insert_keep_first(_, _, _)
Forest_insert_keep_first(trees, keys, value) ==
    LET head == Head(keys)
        rest == Tail(keys)
        i == KeyIndex(trees, head)
    IN IF rest = <<>>
       THEN IF i /= 0 THEN trees
            ELSE InsertSorted(trees, Node(head, value))
       ELSE IF i /= 0 /\ trees[i].kind = "Branch"
            THEN [trees EXCEPT ![i] =
                     Branch(head, Forest_insert_keep_first(@.forest, rest, value))]
       ELSE IF i /= 0
            THEN [trees EXCEPT ![i] =
                     Branch(head, Forest_insert_keep_first(Forest_root, rest, value))]
       ELSE InsertSorted(trees,
                Branch(head, Forest_insert_keep_first(Forest_root, rest, value)))

\* Forest::insert: the final key's entry is written (over whatever has the
\* key); a key before it is descended into, a Branch being made where the
\* level has none with the key (in the place of a Node that has it).
RECURSIVE Forest_insert(_, _, _)
Forest_insert(trees, keys, value) ==
    LET head == Head(keys)
        rest == Tail(keys)
        i == KeyIndex(trees, head)
    IN IF rest = <<>>
       THEN IF i /= 0 THEN [trees EXCEPT ![i] = Node(head, value)]
            ELSE InsertSorted(trees, Node(head, value))
       ELSE IF i /= 0 /\ trees[i].kind = "Branch"
            THEN [trees EXCEPT ![i] =
                     Branch(head, Forest_insert(@.forest, rest, value))]
       ELSE IF i /= 0
            THEN [trees EXCEPT ![i] =
                     Branch(head, Forest_insert(Forest_root, rest, value))]
       ELSE InsertSorted(trees, Branch(head, Forest_insert(Forest_root, rest, value)))

\* Forest::find_node
RECURSIVE Forest_find_node(_, _)
Forest_find_node(trees, keys) ==
    LET i == KeyIndex(trees, Head(keys)) IN
    IF i = 0 THEN None
    ELSE IF Tail(keys) = <<>>
         THEN IF trees[i].kind = "Node" THEN Some(trees[i].value) ELSE None
    ELSE IF trees[i].kind = "Branch"
         THEN Forest_find_node(trees[i].forest, Tail(keys))
    ELSE None

\* Forest::find_branch
RECURSIVE Forest_find_branch(_, _)
Forest_find_branch(trees, keys) ==
    LET i == KeyIndex(trees, Head(keys)) IN
    IF i = 0 \/ trees[i].kind /= "Branch" THEN None
    ELSE IF Tail(keys) = <<>> THEN Some(trees[i].forest)
    ELSE Forest_find_branch(trees[i].forest, Tail(keys))

(***************************************************************************)
(* Directory and File (directory.rs).                                      *)
(***************************************************************************)
\* File::new
File_new(contents) == [contents |-> contents, size |-> Len(contents)]

\* Location::Root
LocationRoot == [kind |-> "Root"]

\* Location::SubDirectory
LocationSubDirectory(label) == [kind |-> "SubDirectory", label |-> label]

\* Path::new (crate::file_system::path)
Path_new(label) == <<label>>

\* Directory::root (directory.rs)
directory_root == [current |-> LocationRoot, sub_directories |-> Forest_root]

\* Directory::new (directory.rs)
directory_new(label) ==
    [current |-> LocationSubDirectory(label), sub_directories |-> Forest_root]

\* Directory::current (directory.rs)
directory_current(dir) ==
    IF dir.current.kind = "Root" THEN LabelRoot ELSE dir.current.label

\* Directory::find_file (directory.rs)
directory_find_file(dir, p) == Forest_find_node(dir.sub_directories, p)

\* Directory::find_directory (directory.rs) naming the directory found by
\* the first label of the path, not the last.
directory_find_directory_first(dir, p) ==
    LET found == Forest_find_branch(dir.sub_directories, p) IN
    IF IsSome(found)
    THEN Some([current |-> LocationSubDirectory(split_first(p)[1]),
               sub_directories |-> Unwrap(found)])
    ELSE None

\* Directory::find_directory (directory.rs)
directory_find_directory(dir, p) ==
    LET found == Forest_find_branch(dir.sub_directories, p) IN
    IF IsSome(found)
    THEN Some([current |-> LocationSubDirectory(split_last(p)[2]),
               sub_directories |-> Unwrap(found)])
    ELSE None

\* Directory::list_directory (directory.rs)
directory_list_directory(dir) ==
    [i \in 1..Len(dir.sub_directories) |->
        IF dir.sub_directories[i].kind = "Node"
        THEN <<dir.sub_directories[i].key, "File">>
        ELSE <<dir.sub_directories[i].key, "Directory">>]

\* File::size (directory.rs)
File_size(file) == file.size

\* Forest::iter stopping at the first level: the files inside the branches
\* are not reached.
Forest_iter_shallow(trees) ==
    LET nodes == SelectSeq(trees, LAMBDA t : t.kind = "Node") IN
    [i \in 1..Len(nodes) |-> nodes[i].value]

\* Forest::iter: the files of the forest, those of a branch at the place of
\* the branch
RECURSIVE Forest_iter(_)
Forest_iter(trees) ==
    IF trees = <<>> THEN <<>>
    ELSE (IF Head(trees).kind = "Node"
          THEN <<Head(trees).value>>
          ELSE Forest_iter(Head(trees).forest)) \o Forest_iter(Tail(trees))

\* fold(0, |size, file| size + file.size())
RECURSIVE FoldSize(_)
FoldSize(files) ==
    IF files = <<>> THEN 0 ELSE File_size(Head(files)) + FoldSize(Tail(files))

\* Directory::size (directory.rs)
directory_size(dir) == FoldSize(Forest_iter(dir.sub_directories))

\* Directory::insert_file (directory.rs) losing the files put directly under
\* the root: only a path of several labels is inserted.
directory_insert_file_below_root(dir, p, file) ==
    IF Len(p) = 1 THEN dir
    ELSE [dir EXCEPT !.sub_directories = Forest_insert(@, p, file)]

\* Directory::insert_file (directory.rs)
directory_insert_file(dir, p, file) ==
    [dir EXCEPT !.sub_directories = Forest_insert(@, p, file)]

\* Directory::from_hash_map, the inner loop: the files of one entry, in order
RECURSIVE InsertEntryFiles(_, _, _)
InsertEntryFiles(dir, p, files) ==
    IF files = <<>> THEN dir
    ELSE LET file_name == Head(files).filename
             file == File_new(Head(files).contents)
             file_path == push(p, file_name)
         IN InsertEntryFiles(
                IF is_root(p)
                THEN directory_insert_file(dir, Path_new(file_name), file)
                ELSE directory_insert_file(dir, file_path, file),
                p, Tail(files))

(***************************************************************************)
(* The inputs of the construction: HashMap<Path, NonEmpty<File>>.          *)
(***************************************************************************)
\* The files the values of the HashMap are drawn from: one named as the root
\* label, and two of one name (that of a directory too) and different contents.
Files == {File(LabelRoot, << >>), File("a", << >>), File("a", <<1>>)}

\* Sequences over S of exactly n elements.
SeqsOfLen(S, n) == [1..n -> S]

\* One entry of the HashMap: a key and its non-empty list of files.
EntrySize(e) == Len(e[1]) + Len(e[2])

\* The entries of size exactly n.
EntriesOfSize(n) ==
    UNION {SeqsOfLen(Labels, k) \X SeqsOfLen(Files, n - k) : k \in 1..(n - 1)}

\* The sets of entries with distinct keys of summed size at most n.
RECURSIVE EntrySetsUpTo(_)
EntrySetsUpTo(n) ==
    {{}} \cup
    UNION {{q[1] \cup {q[2]} :
               q \in {r \in EntrySetsUpTo(n - s) \X EntriesOfSize(s) :
                        \A f \in r[1] : f[1] /= r[2][1]}}
           : s \in 2..n}

\* The HashMap holding a set of entries.
MapOf(es) == [p \in {e[1] : e \in es} |-> (CHOOSE e \in es : e[1] = p)[2]]

\* The HashMaps of summed size at most n.
MapsUpTo(n) == {MapOf(es) : es \in EntrySetsUpTo(n)}

(***************************************************************************)
(* Directory::from (mod.rs): the loop over the HashMap, one entry a step,  *)
(* in any order (the iteration order of a HashMap is unspecified).         *)
(***************************************************************************)
InitIdle ==
    /\ target = empty_root
    /\ other = empty_root
    /\ combined = empty_root
    /\ cpc = "idle"
    /\ path = PathRoot
    /\ prefix = <<>>
    /\ last = LabelRoot
    /\ ppc = "idle"
    /\ argument = None
    /\ string = <<>>
    /\ parsed = PathRoot
    /\ spc = "idle"

Init ==
    /\ paths \in MapsUpTo(MaxSize)
    /\ pending = DOMAIN paths
    /\ root = empty_root
    /\ directory = directory_root
    /\ pc = "loop"
    /\ InitIdle

\* for (dir, files) in paths { ... }
FromStep ==
    /\ pc = "loop"
    /\ \E dir \in pending :
        /\ root' = FromEntry(root, dir, paths[dir])
        /\ pending' = pending \ {dir}
    /\ UNCHANGED <<paths, directory, pc, combineVars, pathVars, stringVars>>

\* the loop is over: `root` is returned
FromReturn ==
    /\ pc = "loop"
    /\ pending = {}
    /\ pc' = "done"
    /\ UNCHANGED <<paths, pending, root, directory, combineVars, pathVars, stringVars>>

Next == FromStep \/ FromReturn

Spec == Init /\ [][Next]_vars

(***************************************************************************)
(* Directory::from_hash_map (directory.rs): the loop over the HashMap, one *)
(* entry a step, in any order.                                             *)
(***************************************************************************)
InitHashMap == Init

\* for (path, files) in files.into_iter() { for (file_name, file) in ... }
HashMapStep ==
    /\ pc = "loop"
    /\ \E p \in pending :
        /\ directory' = InsertEntryFiles(directory, p, paths[p])
        /\ pending' = pending \ {p}
    /\ UNCHANGED <<paths, root, pc, combineVars, pathVars, stringVars>>

\* the loop is over: `directory` is returned
HashMapReturn ==
    /\ pc = "loop"
    /\ pending = {}
    /\ pc' = "done"
    /\ UNCHANGED <<paths, pending, root, directory, combineVars, pathVars, stringVars>>

NextHashMap == HashMapStep \/ HashMapReturn

SpecHashMap == InitHashMap /\ [][NextHashMap]_vars

(***************************************************************************)
(* Path operations (mod.rs): a path is made by root or from_labels, grown  *)
(* by push and append, and split by split_last.                            *)
(***************************************************************************)
\* The paths of at most n labels.
PathsUpTo(n) == UNION {SeqsOfLen(Labels, k) : k \in 1..n}

InitPath ==
    /\ path \in {PathRoot} \cup {from_labels(l, <<>>) : l \in Labels}
    /\ prefix = <<>>
    /\ last = LabelRoot
    /\ ppc = "ready"
    /\ argument = None
    /\ paths = <<>>
    /\ pending = {}
    /\ root = empty_root
    /\ directory = directory_root
    /\ pc = "idle"
    /\ target = empty_root
    /\ other = empty_root
    /\ combined = empty_root
    /\ cpc = "idle"
    /\ string = <<>>
    /\ parsed = PathRoot
    /\ spc = "idle"

\* path.push(label)
PathPush ==
    /\ Len(path) < MaxPathLen
    /\ \E l \in Labels : path' = push(path, l)
    /\ prefix' = <<>>
    /\ last' = LabelRoot
    /\ ppc' = "ready"
    /\ UNCHANGED <<argument, fromVars, combineVars, stringVars>>

\* path.append(&mut q)
PathAppend ==
    /\ \E q \in PathsUpTo(MaxPathLen - 1) :
        /\ Len(path) + Len(q) <= MaxPathLen
        /\ path' = append(path, q)
        /\ argument' = Some(append_argument(path, q))
    /\ prefix' = <<>>
    /\ last' = LabelRoot
    /\ ppc' = "ready"
    /\ UNCHANGED <<fromVars, combineVars, stringVars>>

\* (prefix, last) = path.split_last()
PathSplitLast ==
    /\ ppc = "ready"
    /\ prefix' = split_last(path)[1]
    /\ last' = split_last(path)[2]
    /\ ppc' = "split"
    /\ UNCHANGED <<path, argument, fromVars, combineVars, stringVars>>

NextPath == PathPush \/ PathAppend \/ PathSplitLast

SpecPath == InitPath /\ [][NextPath]_vars

\* Directory::from with the entries taken in one fixed order.
RECURSIVE FromInOrder(_, _, _)
FromInOrder(r, map, keys) ==
    IF keys = {} THEN r
    ELSE LET d == CHOOSE k \in keys : TRUE IN
         FromInOrder(FromEntry(r, d, map[d]), map, keys \ {d})

(***************************************************************************)
(* Directory::combine (mod.rs): self.combine(&other) on two directories,   *)
(* each either the tree Directory::from builds from a HashMap or the       *)
(* directory Directory::from builds for one entry (as tests::test_combine_ *)
(* dirs and test_combine_files make them with mkdir).                      *)
(***************************************************************************)
\* The summed size of the entries of a set.
RECURSIVE SizeOfEntries(_)
SizeOfEntries(es) ==
    IF es = {} THEN 0
    ELSE LET e == CHOOSE x \in es : TRUE IN EntrySize(e) + SizeOfEntries(es \ {e})

\* The directories made from a set of entries: the tree of Directory::from,
\* and for a single non-root entry also the directory made for that entry.
DirectoriesOf(es) ==
    {FromInOrder(empty_root, MapOf(es), DOMAIN MapOf(es))}
    \cup {EntryDirectory(e[1], e[2]) : e \in {x \in es : Cardinality(es) = 1 /\ ~is_root(x[1])}}

\* The sets of entries of summed size exactly n.
EntrySetsOfSize(n) == {es \in EntrySetsUpTo(n) : SizeOfEntries(es) = n}

\* The pairs (target, other) made from two sets of entries of summed size
\* at most n.
CombineInputs(n) ==
    UNION {UNION {DirectoriesOf(q[1]) \X DirectoriesOf(q[2])
                  : q \in EntrySetsOfSize(s) \X EntrySetsUpTo(n - s)}
           : s \in 0..n}

InitCombine ==
    /\ \E in \in CombineInputs(MaxCombineSize) :
        /\ target = in[1]
        /\ other = in[2]
    /\ combined = target
    /\ cpc = "ready"
    /\ paths = <<>>
    /\ pending = {}
    /\ root = empty_root
    /\ directory = directory_root
    /\ pc = "idle"
    /\ path = PathRoot
    /\ prefix = <<>>
    /\ last = LabelRoot
    /\ ppc = "idle"
    /\ argument = None
    /\ string = <<>>
    /\ parsed = PathRoot
    /\ spc = "idle"

\* target.combine(&other)
Combine ==
    /\ cpc = "ready"
    /\ combined' = combine(target, other)
    /\ cpc' = "combined"
    /\ UNCHANGED <<target, other, fromVars, pathVars, stringVars>>

NextCombine == Combine

SpecCombine == InitCombine /\ [][NextCombine]_vars

(***************************************************************************)
(* Properties of Directory::from (mod.rs), specification Spec.             *)
(***************************************************************************)
\* tests::prop_all_directories_and_files: the path a key of the HashMap is
\* searched by (path = Path::root(); path.append(&mut directory_path))
SearchPath(d) == append(PathRoot, d)

\* tests::prop_all_directories_and_files: the path a file of a key is searched by
SearchFilePath(d, file) == push(SearchPath(d), file.filename)

\* C1: in the tree Directory::from returns, for every entry (d, files) of
\* the HashMap and every file of files, find_directory(root path ++ d) is
\* present and find_file(root path ++ d ++ [file.filename]) is present.
C1_AllDirectoriesAndFiles ==
    pc = "done" =>
        \A d \in DOMAIN paths : \A i \in 1..Len(paths[d]) :
            /\ IsSome(find_directory(root, SearchPath(d)))
            /\ IsSome(find_file(root, SearchFilePath(d, paths[d][i])))

\* C4: in the tree built from the HashMap, find_file of the full path of
\* every (directory path, file) pair returns a file whose contents are the
\* contents of that pair's file.
C4_FindFileReturnsContents ==
    pc = "done" =>
        \A d \in DOMAIN paths : \A i \in 1..Len(paths[d]) :
            LET found == find_file(root, SearchFilePath(d, paths[d][i])) IN
            IsSome(found) /\ Unwrap(found).contents = paths[d][i].contents

\* The labels of the children of a directory: file names and sub-directory labels.
ChildLabels(dir) ==
    LET l == list_directory(dir) IN [i \in 1..Len(l) |-> l[i][1]]

\* No two elements of a sequence are equal.
Distinct(seq) == \A i, j \in 1..Len(seq) : i /= j => seq[i] /= seq[j]

\* Every directory of the tree has children of distinct labels.
RECURSIVE UniqueLabels(_)
UniqueLabels(dir) ==
    /\ Distinct(ChildLabels(dir))
    /\ \A i \in 1..Len(dir.entries) :
          dir.entries[i].kind = "SubDirectory" => UniqueLabels(dir.entries[i].dir)

\* C5: after the construction and after every combine of it, no directory of
\* the tree has two children with the same label (two files, two
\* sub-directories, or a file and a sub-directory).
C5_UniqueLabels == UniqueLabels(root)

\* The paths the lookups are compared on: those of at most n labels, over
\* the labels of the inputs and the label of the repository directory.
QueryPaths(n) == UNION {SeqsOfLen(Labels \cup {".test"}, k) : k \in 1..n}

\* C6: the order in which the construction takes the entries of the HashMap
\* changes no lookup: the tree built in any order and the tree built in one
\* fixed order agree on find_file(p) and on the presence of
\* find_directory(p), for every path p.
C6_OrderIndependent ==
    pc = "done" =>
        LET fixed == FromInOrder(empty_root, paths, DOMAIN paths) IN
        \A p \in QueryPaths(MaxSize + 1) :
            /\ find_file(root, p) = find_file(fixed, p)
            /\ IsSome(find_directory(root, p)) = IsSome(find_directory(fixed, p))

\* C10: a file named as the root label, placed by the construction under a
\* non-root directory path d, is found by find_file at its full path, and
\* find_directory of d is present.
C10_FileNamedAsRoot ==
    pc = "done" =>
        \A d \in DOMAIN paths : \A i \in 1..Len(paths[d]) :
            (~is_root(d) /\ paths[d][i].filename = LabelRoot) =>
                /\ IsSome(find_directory(root, SearchPath(d)))
                /\ IsSome(find_file(root, SearchFilePath(d, paths[d][i])))

(***************************************************************************)
(* Properties of Path (mod.rs), specification SpecPath.                    *)
(***************************************************************************)
\* C2: split_last returns (all labels except the last, the last label): the
\* prefix followed by the last label is the path, so the prefix is empty
\* only for a path of one label.
C2_SplitLastKeepsPrefix ==
    ppc = "split" =>
        /\ prefix \o <<last>> = path
        /\ (prefix = <<>>) <=> (Len(path) = 1)

(***************************************************************************)
(* Properties of Directory::from_hash_map (directory.rs), specification    *)
(* SpecHashMap.                                                            *)
(***************************************************************************)
\* C3: in the tree from_hash_map returns, for every entry (d, files) of the
\* HashMap and every (name, file) of files, find_directory(d) is present and
\* find_file(d ++ [name]) is present.
C3_HashMapAllDirectoriesAndFiles ==
    pc = "done" =>
        \A d \in DOMAIN paths : \A i \in 1..Len(paths[d]) :
            /\ IsSome(directory_find_directory(directory, d))
            /\ IsSome(directory_find_file(directory, push(d, paths[d][i].filename)))

\* The (label, SystemType) pairs of list_directory that are files.
ListedFiles(dir) == SelectSeq(list_directory(dir), LAMBDA e : e[2] = "File")

\* The File entries of a directory, in order.
FileEntries(dir) == SelectSeq(dir.entries, LAMBDA e : e.kind = "File")

\* The number of File entries in the sub-directories of a directory, at any depth.
RECURSIVE DeepFiles(_)
RECURSIVE DeepFilesOfEntries(_)
DeepFilesOfEntries(es) ==
    IF es = <<>> THEN 0
    ELSE (IF Head(es).kind = "SubDirectory"
          THEN Len(FileEntries(Head(es).dir)) + DeepFiles(Head(es).dir)
          ELSE 0) + DeepFilesOfEntries(Tail(es))

DeepFiles(dir) == DeepFilesOfEntries(dir.entries)

\* The number of files of the entries of the HashMap other than that of the root path.
RECURSIVE FilesOfKeys(_, _)
FilesOfKeys(map, keys) ==
    IF keys = {} THEN 0
    ELSE LET d == CHOOSE k \in keys : TRUE IN
         Len(map[d]) + FilesOfKeys(map, keys \ {d})

\* C9: the files of the entry whose key is the root path are the immediate
\* File children of the built root, each listed by list_directory as a File,
\* and none of them is placed in a sub-directory: the sub-directories hold as
\* many files as the other entries have.
C9_RootFilesAtRoot ==
    (pc = "done" /\ PathRoot \in DOMAIN paths) =>
        /\ FileEntries(root) = file_entries(paths[PathRoot])
        /\ ListedFiles(root) =
              [i \in 1..Len(paths[PathRoot]) |-> <<paths[PathRoot][i].filename, "File">>]
        /\ DeepFiles(root) = FilesOfKeys(paths, DOMAIN paths \ {PathRoot})

\* C9 witness: a tree is built from a root entry of two files and another entry.
C9_Witness ==
    /\ pc = "done"
    /\ PathRoot \in DOMAIN paths
    /\ Len(paths[PathRoot]) = 2
    /\ Cardinality(DOMAIN paths) = 2
    /\ Len(list_directory(root)) = 4

(***************************************************************************)
(* Properties of Directory::combine (mod.rs), specification SpecCombine.   *)
(***************************************************************************)
\* The number of sub-directories of a directory with a label.
SubDirectoryCount(dir, label) ==
    Cardinality({i \in 1..Len(dir.entries) :
        dir.entries[i].kind = "SubDirectory" /\ dir.entries[i].dir.label = label})

\* The labels of the sub-directory entries of a directory, in order.
SubDirectoryLabels(dir) ==
    LET subs == SelectSeq(dir.entries, LAMBDA e : e.kind = "SubDirectory") IN
    [i \in 1..Len(subs) |-> subs[i].dir.label]

\* oth goes on along a chain that t's sub-directory sub holds: its only entry
\* is a sub-directory whose label is one of a sub-directory of sub.
ChainGoesOn(sub, oth) ==
    /\ Len(oth.entries) = 1
    /\ oth.entries[1].kind = "SubDirectory"
    /\ SubDirectoryCount(sub, oth.entries[1].dir.label) > 0

\* t holds the chain of labels oth starts with, one sub-directory per label,
\* and below the chain oth brings leaves and branches t does not hold: its
\* sub-directories there have distinct labels, none of a sub-directory of
\* the innermost directory of the chain.
RECURSIVE HoldsChain(_, _)
HoldsChain(t, oth) ==
    /\ SubDirectoryCount(t, oth.label) = 1
    /\ LET sub == Unwrap(sub_directory(t, oth.label)) IN
       IF ChainGoesOn(sub, oth)
       THEN HoldsChain(sub, oth.entries[1].dir)
       ELSE /\ Distinct(SubDirectoryLabels(oth))
            /\ \A l \in {SubDirectoryLabels(oth)[i] :
                            i \in 1..Len(SubDirectoryLabels(oth))} :
                  SubDirectoryCount(sub, l) = 0

\* c is t with oth merged along the chain: at every level of the chain the
\* directory keeps its entries and has one sub-directory of the chain's
\* label, and the innermost directory of the chain has its earlier entries
\* followed by the entries oth brings.
RECURSIVE ChainMerged(_, _, _)
ChainMerged(t, oth, c) ==
    LET i == sub_directory_mut(t, oth.label) IN
    /\ Len(c.entries) = Len(t.entries)
    /\ c.label = t.label
    /\ \A j \in 1..Len(t.entries) : j /= i => c.entries[j] = t.entries[j]
    /\ SubDirectoryCount(c, oth.label) = 1
    /\ c.entries[i].kind = "SubDirectory"
    /\ c.entries[i].dir.label = oth.label
    /\ IF ChainGoesOn(t.entries[i].dir, oth)
       THEN ChainMerged(t.entries[i].dir, oth.entries[1].dir, c.entries[i].dir)
       ELSE c.entries[i].dir.entries = t.entries[i].dir.entries \o oth.entries

RECURSIVE TreePaths(_)
TreePaths(dir) ==
    {<<dir.label>>}
    \cup {<<dir.label, dir.entries[i].file.filename>> :
             i \in {j \in 1..Len(dir.entries) : dir.entries[j].kind = "File"}}
    \cup UNION {{<<dir.label>> \o q : q \in TreePaths(dir.entries[i].dir)} :
             i \in {j \in 1..Len(dir.entries) : dir.entries[j].kind = "SubDirectory"}}

\* The paths the lookups of a tree are tried on: those of its directories and
\* files, and every path of one or two labels.
LookupPaths(dir) == TreePaths(dir) \cup QueryPaths(2)

\* What is found in target stays found at its path, and what is found in
\* other at a full path (other's label first, for a file followed by at least
\* the file's name) is found in the combined tree at target's label followed
\* by that path.
StaysFindable ==
    /\ \A p \in LookupPaths(target) :
          /\ IsSome(find_file(target, p)) => IsSome(find_file(combined, p))
          /\ IsSome(find_directory(target, p)) => IsSome(find_directory(combined, p))
    /\ \A q \in {x \in LookupPaths(other) : Head(x) = other.label} :
          /\ (Len(q) >= 2 /\ IsSome(find_file(other, q))) =>
                IsSome(find_file(combined, <<target.label>> \o q))
          /\ IsSome(find_directory(other, q)) =>
                IsSome(find_directory(combined, <<target.label>> \o q))

\* The elements of a sequence.
Range(seq) == {seq[i] : i \in 1..Len(seq)}

\* C8 as stated: combining two trees rooted at different labels yields a
\* tree whose children are the union of both roots' entries, and what was
\* findable in either tree is findable in the combined tree.
C8_ChildrenAreUnion ==
    (cpc = "combined" /\ target.label /= other.label) =>
        /\ Range(combined.entries) = Range(target.entries) \cup Range(other.entries)
        /\ StaysFindable

\* C8 amended: combining target with a tree other rooted at a different
\* label keeps target's label and entries and puts other below them as a
\* sub-directory of other's label: appended whole as a new last child when
\* target has no sub-directory of that label, otherwise merged into the
\* first such sub-directory and no child added; what was findable in target
\* stays findable at its path, and what was findable in other at a full path
\* (other's label first, for a file followed by at least the file's name) is
\* findable at target's label followed by that path.
C8_OtherBecomesChild ==
    (cpc = "combined" /\ target.label /= other.label) =>
        /\ combined.label = target.label
        /\ LET i == sub_directory_mut(target, other.label) IN
           IF i = 0
           THEN combined.entries = Append(target.entries, SubDirectoryEntry(other))
           ELSE /\ Len(combined.entries) = Len(target.entries)
                /\ \A j \in 1..Len(target.entries) :
                      j /= i => combined.entries[j] = target.entries[j]
                /\ combined.entries[i].kind = "SubDirectory"
                /\ combined.entries[i].dir.label = other.label
        /\ StaysFindable

\* C8 witness: two built directories of different labels, each with a file
\* below its root, have been combined, target holding a sub-directory of
\* other's label.
C8_Witness ==
    /\ cpc = "combined"
    /\ target.label /= other.label
    /\ sub_directory_mut(target, other.label) /= 0
    /\ Len(FileEntries(other)) > 0
    /\ DeepFiles(target) > 0
    /\ combined /= target

(***************************************************************************)
(* Iteration over a Directory (directory.rs) and the non-empty invariant.  *)
(***************************************************************************)
\* From<SubTree<Label, File>> for DirectoryContents
DirectoryContents_from(sub_tree) ==
    IF sub_tree.kind = "Node"
    THEN [kind |-> "File", name |-> sub_tree.key, file |-> sub_tree.value]
    ELSE [kind |-> "Directory",
          directory |-> [current |-> LocationSubDirectory(sub_tree.key),
                         sub_directories |-> sub_tree.forest]]

\* Directory::iter (directory.rs): the sub-trees of the level, in their order
directory_iter(dir) ==
    [i \in 1..Len(dir.sub_directories) |->
        DirectoryContents_from(dir.sub_directories[i])]

\* A directory and the directories iteration yields from it, at any depth.
RECURSIVE ReachableDirectories(_)
ReachableDirectories(dir) ==
    {dir} \cup
    UNION {ReachableDirectories(directory_iter(dir)[i].directory) :
             i \in {j \in 1..Len(dir.sub_directories) :
                      directory_iter(dir)[j].kind = "Directory"}}

\* The directory, the directories iteration yields from it at any depth and
\* the directories find_directory returns all have at least one child (a key
\* of the HashMap, and so a path to a directory, has less than MaxSize labels).
NoZeroChildren(dir) ==
    /\ \A d \in ReachableDirectories(dir) : Len(d.sub_directories) > 0
    /\ \A p \in PathsUpTo(MaxSize - 1) :
          LET found == directory_find_directory(dir, p) IN
          IsSome(found) => Len(Unwrap(found).sub_directories) > 0

RECURSIVE DirectoriesAt(_, _)
DirectoriesAt(dir, labels) ==
    IF labels = <<>> THEN {dir}
    ELSE UNION {DirectoriesAt(dir.entries[i].dir, Tail(labels)) :
                  i \in {j \in 1..Len(dir.entries) :
                           /\ dir.entries[j].kind = "SubDirectory"
                           /\ dir.entries[j].dir.label = Head(labels)}}

\* Every label of the path names a sub-directory at its level: the first the
\* directory searched itself, each later one a sub-directory of the one before.
NamesDirectory(dir, p) ==
    Head(p) = dir.label /\ DirectoriesAt(dir, Tail(p)) /= {}

\* A directory has a File entry of the name.
HasFile(dir, name) ==
    \E i \in 1..Len(dir.entries) :
        dir.entries[i].kind = "File" /\ dir.entries[i].file.filename = name

\* Every label of the path names an entry at its level and the last names a
\* file: a path of one label names a file of the directory searched, a
\* longer one names directories up to its last label.
NamesFile(dir, p) ==
    IF Len(p) = 1 THEN HasFile(dir, p[1])
    ELSE /\ Head(p) = dir.label
         /\ \E d \in DirectoriesAt(dir, SubSeq(p, 2, Len(p) - 1)) :
               HasFile(d, p[Len(p)])

\* C12: find_file returns None whenever some label of the path names no
\* entry at its level or the last label names no file, and find_directory
\* returns None whenever some label names no sub-directory at its level.
C12_AbsentWhenNotNamed ==
    \A p \in QueryPaths(4) :
        /\ ~NamesFile(root, p) => find_file(root, p) = None
        /\ ~NamesDirectory(root, p) => find_directory(root, p) = None

(***************************************************************************)
(* Properties of Directory::size (directory.rs), specification SpecHashMap.*)
(***************************************************************************)
\* from_hash_map: the path a file of an entry is inserted at
InsertPath(p, name) == IF is_root(p) THEN Path_new(name) ELSE push(p, name)

\* The insertions from_hash_map has made: (entry, place in the entry's list).
Inserted ==
    UNION {{<<p, i>> : i \in 1..Len(paths[p])} : p \in (DOMAIN paths) \ pending}

\* The path of an insertion and the size of its file.
InsertedAt(x) == InsertPath(x[1], paths[x[1]][x[2]].filename)
InsertedSize(x) == Len(paths[x[1]][x[2]].contents)

\* The sum of the sizes of the files of a set of insertions.
RECURSIVE SumOfSizes(_)
SumOfSizes(xs) ==
    IF xs = {} THEN 0
    ELSE LET x == CHOOSE y \in xs : TRUE IN InsertedSize(x) + SumOfSizes(xs \ {x})

\* p is q or the beginning of q.
IsPrefix(p, q) == Len(p) <= Len(q) /\ SubSeq(q, 1, Len(p)) = p

\* No insertion went to the path of another or to a path on the way to it.
NoClash == \A x, y \in Inserted : x /= y => ~IsPrefix(InsertedAt(x), InsertedAt(y))

\* C13 as stated: size() of the root is the sum of the sizes of all the
\* files inserted, whatever their depth and the order of the insertions.
C13_SizeIsSum == directory_size(directory) = SumOfSizes(Inserted)

\* C13 amended: when the files were inserted at pairwise different paths,
\* none of them the beginning of another, size() of the root is the sum of
\* their sizes, whatever their depth and the order of the insertions; a file
\* inserted at the path of an earlier one replaces it and only the later
\* size counts.
C13_SizeIsSumOfDistinct ==
    NoClash => directory_size(directory) = SumOfSizes(Inserted)

\* C13 witness: the tree is built from files of size 1 at different depths,
\* one directly under the root and one in a directory, with no clash.
C13_Witness ==
    /\ pc = "done"
    /\ NoClash
    /\ directory_size(directory) >= 2
    /\ \E i, j \in 1..Len(directory.sub_directories) :
          /\ directory.sub_directories[i].kind = "Node"
          /\ directory.sub_directories[i].value.size = 1
          /\ directory.sub_directories[j].kind = "Branch"

(***************************************************************************)
(* Properties of Directory::list_directory (mod.rs), specification Spec.   *)
(***************************************************************************)
\* A directory and its sub-directories at any depth.
RECURSIVE DirectoriesIn(_)
DirectoriesIn(dir) ==
    {dir} \cup
    UNION {DirectoriesIn(dir.entries[i].dir) :
             i \in {j \in 1..Len(dir.entries) : dir.entries[j].kind = "SubDirectory"}}

\* How often a value occurs in a sequence.
Count(seq, x) == Cardinality({i \in 1..Len(seq) : seq[i] = x})

\* The number of immediate children of a directory with the label and kind.
ChildCount(dir, label, kind) ==
    Cardinality({i \in 1..Len(dir.entries) :
        \/ /\ kind = "File"
           /\ dir.entries[i].kind = "File"
           /\ dir.entries[i].file.filename = label
        \/ /\ kind = "Directory"
           /\ dir.entries[i].kind = "SubDirectory"
           /\ dir.entries[i].dir.label = label})

\* C14: list_directory returns exactly one (label, kind) pair for each
\* immediate file or sub-directory child of the directory and none for a
\* deeper entry, the kind File for a file and Directory for a sub-directory:
\* each pair is listed as often as the directory has such a child, so the
\* sorted listing is the sorted list of the children's labels and kinds.
C14_ListsImmediateChildren ==
    \A d \in DirectoriesIn(root) :
        /\ \A i \in 1..Len(list_directory(d)) :
              /\ list_directory(d)[i][1] \in Labels \cup {".test"}
              /\ list_directory(d)[i][2] \in {"File", "Directory"}
        /\ \A l \in Labels \cup {".test"} : \A k \in {"File", "Directory"} :
              Count(list_directory(d), <<l, k>>) = ChildCount(d, l, k)

\* C14 witness: the built root has a file and a sub-directory that itself
\* holds files, so there are deeper entries the listing of the root leaves out.
C14_Witness ==
    /\ pc = "done"
    /\ Len(FileEntries(root)) > 0
    /\ DeepFiles(root) > 0
    /\ Len(list_directory(root)) = Len(root.entries)

(***************************************************************************)
(* Path::from_string (mod.rs) applied to a string of at most MaxStringLen  *)
(* characters.                                                             *)
(***************************************************************************)
\* The characters of the strings: the separator, a letter and the root label's.
Chars == {"/", "a", "~"}

\* The strings of at most n characters.
StringsUpTo(n) == UNION {SeqsOfLen(Chars, k) : k \in 0..n}

InitFromString ==
    /\ string \in StringsUpTo(MaxStringLen)
    /\ parsed = PathRoot
    /\ spc = "ready"
    /\ paths = <<>>
    /\ pending = {}
    /\ root = empty_root
    /\ directory = directory_root
    /\ pc = "idle"
    /\ target = empty_root
    /\ other = empty_root
    /\ combined = empty_root
    /\ cpc = "idle"
    /\ path = PathRoot
    /\ prefix = <<>>
    /\ last = LabelRoot
    /\ ppc = "idle"
    /\ argument = None

\* parsed = Path::from_string(string)
FromString ==
    /\ spc = "ready"
    /\ parsed' = from_string(string)
    /\ spc' = "parsed"
    /\ UNCHANGED <<string, fromVars, combineVars, pathVars>>

NextFromString == FromString

SpecFromString == InitFromString /\ [][NextFromString]_vars

\* A string without its leading and trailing separators.
Stripped(s) ==
    LET kept == {i \in 1..Len(s) : s[i] /= "/"} IN
    IF kept = {} THEN <<>>
    ELSE SubSeq(s, CHOOSE i \in kept : \A k \in kept : i <= k,
                   CHOOSE j \in kept : \A k \in kept : k <= j)

\* The labels of a path written with a separator between them.
RECURSIVE JoinLabels(_)
JoinLabels(p) ==
    IF Len(p) = 1 THEN p[1] ELSE p[1] \o "/" \o JoinLabels(Tail(p))

\* C15: from_string ignores leading and trailing separators: the path of a
\* string is the path of the string without them; the empty string gives the
\* root path; otherwise the labels are the pieces between the separators, in
\* order (as many labels as separators plus one, which written with the
\* separators between them give the string).
C15_FromStringIgnoresSeparators ==
    spc = "parsed" =>
        /\ parsed = from_string(Stripped(string))
        /\ string = <<>> => parsed = PathRoot
        /\ Stripped(string) /= <<>> =>
              /\ Len(parsed) = Count(Stripped(string), "/") + 1
              /\ JoinLabels(parsed) = Label_from(Stripped(string))

(***************************************************************************)
(* Properties of Directory::current (directory.rs), specification          *)
(* SpecHashMap.                                                            *)
(***************************************************************************)
\* C16: for every path p for which find_directory(p) is present, current()
\* of the directory returned is the last label of p, and current() of the
\* root directory is the root label "~".
C16_CurrentIsLastLabel ==
    /\ directory_current(directory) = LabelRoot
    /\ \A p \in PathsUpTo(MaxSize - 1) :
          LET found == directory_find_directory(directory, p) IN
          IsSome(found) => directory_current(Unwrap(found)) = p[Len(p)]

\* C16 witness: in the built tree find_directory is present for a path of
\* two different labels.
C16_Witness ==
    /\ pc = "done"
    /\ \E p \in PathsUpTo(2) :
          /\ Len(p) = 2
          /\ p[1] /= p[2]
          /\ IsSome(directory_find_directory(directory, p))

(***************************************************************************)
(* The order of list_directory and iter (directory.rs), specification      *)
(* SpecHashMap.                                                            *)
(***************************************************************************)
\* DirectoryContents::label (directory.rs)
DirectoryContents_label(contents) ==
    IF contents.kind = "File" THEN contents.name
    ELSE directory_current(contents.directory)

\* The labels of a sequence ascend strictly.
Ascending(labels) ==
    \A i, j \in 1..Len(labels) : i < j => LabelRank(labels[i]) < LabelRank(labels[j])

\* The labels list_directory and iter enumerate, in their order.
ListedLabels(dir) ==
    [i \in 1..Len(directory_list_directory(dir)) |-> directory_list_directory(dir)[i][1]]
IteratedLabels(dir) ==
    [i \in 1..Len(directory_iter(dir)) |-> DirectoryContents_label(directory_iter(dir)[i])]

AppendGrows ==
    \E q \in PathsUpTo(MaxPathLen - 1) :
        /\ path' = path \o q
        /\ argument' = Some(q)

\* A step of push: the path has one label more, a label at its right end,
\* and every label it had is at its place.
PushGrows ==
    /\ Len(path') = Len(path) + 1
    /\ path'[Len(path')] \in Labels
    /\ \A i \in 1..Len(path) : path'[i] = path[i]

\* C18: append(p, q) sets p to the labels of the old p followed by the
\* labels of q, in order, and leaves q unchanged; push(p, l) adds exactly the
\* label l at the right end of p and changes no other label; after any
\* sequence of root, from_labels, push and append a path has at least one
\* label.
C18_AppendPushGrow ==
    /\ [][PathAppend => AppendGrows]_vars
    /\ [][PathPush => PushGrows]_vars
    /\ [](Len(path) >= 1)

\* C18 witness: a path grown to two labels has been appended a path of two
\* labels: it has four labels, the last two those of the argument, which is kept.
C18_Witness ==
    /\ Len(path) = 4
    /\ IsSome(argument)
    /\ Len(Unwrap(argument)) = 2
    /\ SubSeq(path, 3, 4) = Unwrap(argument)

(***************************************************************************)
(* The two arms of Directory::combine (mod.rs), specification SpecCombine. *)
(***************************************************************************)
\* C19: when target has no immediate sub-directory labelled other.label,
\* combine(target, other) appends a copy of other as the last entry of
\* target and leaves target's label, every earlier entry of target (and
\* their order) and other itself unchanged.
C19_AppendsOther ==
    /\ []((cpc = "combined" /\ sub_directory_mut(target, other.label) = 0) =>
            /\ combined.label = target.label
            /\ Len(combined.entries) = Len(target.entries) + 1
            /\ \A i \in 1..Len(target.entries) :
                  combined.entries[i] = target.entries[i]
            /\ combined.entries[Len(combined.entries)] = SubDirectoryEntry(other))
    /\ [][Combine => other' = other]_vars

\* C19 witness: a target of several entries, none a sub-directory of
\* other's label, has been combined with an other that holds a file.
C19_Witness ==
    /\ cpc = "combined"
    /\ sub_directory_mut(target, other.label) = 0
    /\ Len(target.entries) >= 2
    /\ Len(FileEntries(other)) > 0

\* C20: when target has an immediate sub-directory S labelled other.label,
\* combine(target, other) adds no child to target itself and appends to S one
\* File entry for each immediate File entry of other, in other's order and
\* without a name check: the File entries of S are those it had followed by
\* those of other, so their number grows by the number of File entries of
\* other, also when a name is already present in S.
C20_FilesAppendedToShared ==
    LET i == sub_directory_mut(target, other.label) IN
    (cpc = "combined" /\ i /= 0) =>
        /\ combined.label = target.label
        /\ Len(combined.entries) = Len(target.entries)
        /\ \A j \in 1..Len(target.entries) :
              j /= i => combined.entries[j] = target.entries[j]
        /\ combined.entries[i].kind = "SubDirectory"
        /\ combined.entries[i].dir.label = other.label
        /\ FileEntries(combined.entries[i].dir) =
              FileEntries(target.entries[i].dir) \o FileEntries(other)
        /\ Len(FileEntries(combined.entries[i].dir)) =
              Len(FileEntries(target.entries[i].dir)) + Len(FileEntries(other))

\* C20 witness: target has a sub-directory of other's label that holds a
\* file of a name a file of other has too, and the two have been combined.
C20_Witness ==
    LET i == sub_directory_mut(target, other.label) IN
    /\ cpc = "combined"
    /\ i /= 0
    /\ \E f \in Range(FileEntries(other)) :
          HasFile(target.entries[i].dir, f.file.filename)
    /\ Len(FileEntries(combined.entries[i].dir)) >= 2

(***************************************************************************)
(* Overwriting by Directory::insert_file (directory.rs), specification     *)
(* SpecHashMap: the files of one entry are inserted one after the other,   *)
(* those of one name at the same path.                                     *)
(***************************************************************************)
\* The place in a list of files of the last file of the name.
LastOfName(files, name) ==
    CHOOSE j \in 1..Len(files) :
        /\ files[j].filename = name
        /\ \A k \in 1..Len(files) : files[k].filename = name => k <= j

\* Every label of the path is the key of exactly one sub-tree of its level,
\* a Branch for a label before the last.
RECURSIVE OneChildAlong(_, _)
OneChildAlong(trees, keys) ==
    /\ Cardinality({i \in 1..Len(trees) : trees[i].key = Head(keys)}) = 1
    /\ Tail(keys) /= <<>> =>
          /\ trees[KeyIndex(trees, Head(keys))].kind = "Branch"
          /\ OneChildAlong(trees[KeyIndex(trees, Head(keys))].forest, Tail(keys))

\* One of the paths is the other or its beginning.
Related(p, q) == IsPrefix(p, q) \/ IsPrefix(q, p)

\* A step of from_hash_map for the entry p: each file name of the entry is
\* found with the contents of the last file of that name, as the one child
\* of that label of its directory, every label of its path naming one
\* child of its level; and a file inserted before at a path that is neither
\* one of the entry's nor on the way to or from one is found as before.
Overwrites(p) ==
    /\ \A i \in 1..Len(paths[p]) :
          LET name == paths[p][i].filename
              at == InsertPath(p, name)
              g == paths[p][LastOfName(paths[p], name)]
          IN /\ directory_find_file(directory', at) = Some(File_new(g.contents))
             /\ OneChildAlong(directory'.sub_directories, at)
    /\ \A y \in Inserted :
          (\A i \in 1..Len(paths[p]) :
              ~Related(InsertedAt(y), InsertPath(p, paths[p][i].filename))) =>
            directory_find_file(directory', InsertedAt(y)) =
                directory_find_file(directory, InsertedAt(y))

\* C21: insert_file(p, f) followed by insert_file(p, g) on the same path
\* overwrites: afterwards find_file(p) returns g, the directory holding the
\* file has exactly one child labelled with p's last label, and every
\* directory on the way to p that already existed is used again, not made a
\* second time (one child of the label at each level, the files it held
\* elsewhere found as before).
C21_InsertOverwrites ==
    [][HashMapStep => \A p \in pending \ pending' : Overwrites(p)]_vars

\* C21 witness: an entry of a key below the root with two files of one name
\* and different contents has been inserted, and the path of the two holds
\* the second.
C21_Witness ==
    \E p \in (DOMAIN paths) \ pending :
        /\ Len(p) >= 2
        /\ \E i, j \in 1..Len(paths[p]) :
              /\ i < j
              /\ paths[p][i].filename = paths[p][j].filename
              /\ paths[p][i].contents /= paths[p][j].contents
              /\ j = LastOfName(paths[p], paths[p][j].filename)
              /\ directory_find_file(directory, InsertPath(p, paths[p][j].filename))
                    = Some(File_new(paths[p][j].contents))

\* C22: combine never hides what was findable: for every path p, if
\* find_file(p) on target returned a file before combine(target, other) it
\* returns the same file afterwards, and if find_directory(p) was present
\* before it is present afterwards.
C22_CombineNeverHides ==
    cpc = "combined" =>
        \A p \in LookupPaths(target) :
            /\ IsSome(find_file(target, p)) =>
                  find_file(combined, p) = find_file(target, p)
            /\ IsSome(find_directory(target, p)) =>
                  IsSome(find_directory(combined, p))

\* C22 witness: target has a sub-directory of other's label holding a file,
\* other brings a file of that name with other contents, and after the
\* combine the path still finds the file target held.
C22_Witness ==
    LET i == sub_directory_mut(target, other.label) IN
    /\ cpc = "combined"
    /\ i /= 0
    /\ \E f \in Range(FileEntries(other)) :
          LET p == <<target.label, other.label, f.file.filename>>
              held == find_file(target, p)
          IN /\ IsSome(held)
             /\ Unwrap(held) /= f.file
             /\ find_file(combined, p) = held

(***************************************************************************)
(* Invariants of the construction Directory::from (mod.rs), specification  *)
(* Spec.                                                                   *)
(***************************************************************************)
\* The number of files of the entries of the keys.
RECURSIVE FilesOfMap(_)
FilesOfMap(keys) ==
    IF keys = {} THEN 0
    ELSE LET d == CHOOSE k \in keys : TRUE IN
         Len(paths[d]) + FilesOfMap(keys \ {d})

\* C23: Directory::from drops and overwrites no file: the number of File
\* entries in the whole tree (those of the root and those of the directories
\* below it) is the number of files of the entries of the HashMap taken so
\* far, at the end that of all entries, files of equal names included.
C23_NoFileLost ==
    Len(FileEntries(root)) + DeepFiles(root) = FilesOfMap((DOMAIN paths) \ pending)

\* C23 witness: the tree is built from several entries, one of them with two
\* files of one name.
C23_Witness ==
    /\ pc = "done"
    /\ Cardinality(DOMAIN paths) >= 2
    /\ \E d \in DOMAIN paths : \E i, j \in 1..Len(paths[d]) :
          i /= j /\ paths[d][i].filename = paths[d][j].filename

\* C24: in every tree built by Directory::from, at every step of the
\* construction, no directory has two sub-directories of the same label:
\* combine makes a new sub-directory only where the level has none of the
\* label, so find_directory never has two to choose between.
C24_UniqueSubDirectories ==
    \A d \in DirectoriesIn(root) : Distinct(SubDirectoryLabels(d))

\* C24 witness: the tree is built from two entries whose keys begin with the
\* same label, and the root has the one sub-directory of that label.
C24_Witness ==
    /\ pc = "done"
    /\ \E d1, d2 \in DOMAIN paths :
          /\ d1 /= d2
          /\ ~is_root(d1)
          /\ ~is_root(d2)
          /\ d1[1] = d2[1]
          /\ SubDirectoryCount(root, d1[1]) = 1

\* C25: file and directory lookups agree: for every directory D of a built
\* tree and every path p of two or more labels, if find_file(p) on D is
\* present then find_directory(p without its last label) on D is present.
C25_LookupsAgree ==
    \A D \in DirectoriesIn(root) :
        \A p \in {q \in QueryPaths(4) : Len(q) >= 2} :
            IsSome(find_file(D, p)) =>
                IsSome(find_directory(D, SubSeq(p, 1, Len(p) - 1)))

====
